---------------------------- MODULE Spec2Model ----------------------------
(***************************************************************************)
(* Model of mz::io::MultiFile (MultifileIO.cpp / MultiFileIO.h) on top of  *)
(* mz::io::BasicFile<3> (FileIO.h): one primary handle `hdl`, up to five   *)
(* redundant handles `copies[0..4]`, every operation fanned out over all   *)
(* of them.                                                                *)
(*                                                                         *)
(* Participant 0 is `hdl`; participant i (1..5) is `copies[i-1]`.          *)
(* Participant i is always opened on path i, so the paths are distinct.    *)
(* The operating system (descriptor table, file contents, positions) is    *)
(* modelled by what the C runtime calls do; an injected fault makes the    *)
(* underlying call of the chosen participants return an error or a short   *)
(* count.                                                                  *)
(***************************************************************************)
EXTENDS Integers, Sequences, FiniteSets, TLC

\* ------------------------------------------------------------------ bounds
MaxLen == 2
\* longest file, in bytes
MaxByte == 1
\* bytes are 0..MaxByte
MaxFaults == 1
\* injected faults and external interventions per behaviour
MaxOps == 2
\* positioning, I/O and query operations per behaviour
MaxTripOps == 3
\* fault-free write / seek / read operations per behaviour of SpecRoundTrip
MaxOpens == 2
\* calls of open / create / excl per behaviour

\* ------------------------------------------------------- program constants
MaxCopies == 5
EACCES == 13
EEXIST == 17
EINVAL == 22
EMFILE == 24
ENOENT == 2
EBADF == 9
ENOSPC == 28
\* the chunk compare reads at a time
ChunkSize == 4096

Participants == 0..MaxCopies
Byte == 0..MaxByte

VARIABLES
    files,      \* path i |-> [exists, data]: the file system
    f_handle,   \* BasicFile::f_handle of each participant: -1 or a descriptor
    f_pos,      \* file position of the participant's descriptor
    f_app,      \* the descriptor was opened with O_APPEND
    e_flags,    \* BasicFile::e_flags of each participant: the set of bits set
    NumCopies,  \* MultiFile::NumCopies
    OpenFlags,  \* MultiFile::OpenFlags, as the set of O_ bits
    buffer,     \* MultiFile::buffer, the thread-local verification buffer
    op,         \* the last operation called and its arguments
    ret,        \* its return value
    ubuf,       \* the caller's buffer after the last read
    calls,      \* the underlying calls the last operation made, in order
    roundTrip,  \* progress of a write / seek back / read sequence
    nfaults,    \* faults injected and external interventions so far
    nops,       \* positioning, I/O and query operations so far
    nopens,     \* calls of open / create / excl so far
    thr         \* the threads that read concurrently, each on a coordinator
                \* of its own: position in read, locals, buffer instance

vars == <<files, f_handle, f_pos, f_app, e_flags, NumCopies, OpenFlags, buffer,
          op, ret, ubuf, calls, roundTrip, nfaults, nops, nopens, thr>>

\* ------------------------------------------------------------- arithmetic
Min(a, b) == IF a < b THEN a ELSE b
Max(a, b) == IF a > b THEN a ELSE b

RECURSIVE BitAnd(_, _)
BitAnd(a, b) ==
    IF a = 0 \/ b = 0 THEN 0
    ELSE (a % 2) * (b % 2) + 2 * BitAnd(a \div 2, b \div 2)

BitOr(a, b) == a + b - BitAnd(a, b)

\* value stored by assigning x to a one-bit bit-field
Bit1(x) == x % 2

\* ------------------------------------------------------------ error_flags
BadBits == {"open", "reopen", "eacces", "eexists", "einval", "emfile",
            "enoent", "invalid"}
FailBits == {"commit", "seek", "tell", "read", "write", "corrupt"}

ef_good(e) == e = {}
ef_fail(e) == e # {}
ef_bad(e) == e \cap BadBits # {}
\* error_flags::bad(int fh): assigns the open bit, then reports the bad bits
ef_bad_fh(e, fh) == IF fh = -1 THEN e \cup {"open"} ELSE e \ {"open"}

fill_open_errors(err) ==
    (IF Bit1(BitAnd(err, EACCES)) = 1 THEN {"eacces"} ELSE {})
    \cup (IF Bit1(BitAnd(err, EEXIST)) = 1 THEN {"eexists"} ELSE {})
    \cup (IF Bit1(BitAnd(err, EINVAL)) = 1 THEN {"einval"} ELSE {})
    \cup (IF Bit1(BitAnd(err, EMFILE)) = 1 THEN {"emfile"} ELSE {})
    \cup (IF Bit1(BitAnd(err, ENOENT)) = 1 THEN {"enoent"} ELSE {})

\* ------------------------------------------------------------------ faults
\* flt.at: the participants whose underlying call fails in this operation;
\* flt.kind: "err" (the call returns -1 / an errno) or "short" (one byte less)
NoFault == [at |-> {}, kind |-> "err"]
Faulty(flt, h) == h \in flt.at

\* ------------------------------------------------------------------- world
\* The part of the state the handles act on, threaded through the loops.
World == [files |-> files, fh |-> f_handle, fpos |-> f_pos, fapp |-> f_app,
          ef |-> e_flags, calls |-> <<>>]

Called(w, h, fn, r) == Append(w.calls, [h |-> h, fn |-> fn, r |-> r])

\* a call of os_open also records the flags it was given
Opened(w, h, Flags, err) ==
    Append(w.calls, [h |-> h, fn |-> "open", r |-> err, fl |-> Flags])

is_open_h(w, h) == w.fh[h] # -1
good_h(w, h) == ef_good(w.ef[h])
fail_h(w, h) == ef_fail(w.ef[h])
FLen(w, h) == Len(w.files[h].data)


\* ------------------------------------------------------- operating system
\* d with the bytes b written at offset start (a gap is filled with zeros)
OverWrite(d, start, b) ==
    IF Len(b) = 0 THEN d
    ELSE [k \in 1..Max(Len(d), start + Len(b)) |->
            IF k > start /\ k <= start + Len(b) THEN b[k - start]
            ELSE IF k <= Len(d) THEN d[k] ELSE 0]

\* d cut or zero-extended to n bytes
Resize(d, n) == [k \in 1..n |-> IF k <= Len(d) THEN d[k] ELSE 0]

\* errno of _sopen_s(&f_handle, Path, Flags, ...)
os_open_err(w, h, Flags, flt) ==
    IF Faulty(flt, h) THEN (IF flt.kind = "err" THEN EACCES ELSE EMFILE)
    ELSE IF {"WRONLY", "RDWR"} \subseteq Flags THEN EINVAL
    ELSE IF ~w.files[h].exists /\ "CREAT" \notin Flags THEN ENOENT
    ELSE IF w.files[h].exists /\ {"CREAT", "EXCL"} \subseteq Flags THEN EEXIST
    ELSE 0

\* the descriptor the system hands out for participant h
Descriptor(h) == 3 + h

\* _read: the count delivered, or -1
os_read_res(w, h, Size, flt) ==
    IF ~is_open_h(w, h) THEN -1
    ELSE LET n == Min(Size, Max(0, FLen(w, h) - w.fpos[h])) IN
         IF ~Faulty(flt, h) THEN n
         ELSE IF flt.kind = "short" /\ n >= 1 THEN n - 1 ELSE -1

\* _write: the count written, or -1
os_write_res(w, h, Size, flt) ==
    IF ~is_open_h(w, h) THEN -1
    ELSE IF ~Faulty(flt, h) THEN Size
    ELSE IF flt.kind = "short" /\ Size >= 1 THEN Size - 1 ELSE -1

\* _lseeki64: the new position, or -1
os_seek_res(w, h, Pos, Dir, flt) ==
    IF ~is_open_h(w, h) \/ Faulty(flt, h) THEN -1
    ELSE LET base == CASE Dir = "SET" -> 0
                       [] Dir = "CUR" -> w.fpos[h]
                       [] Dir = "END" -> FLen(w, h) IN
         IF base + Pos < 0 THEN -1 ELSE base + Pos

\* _chsize_s: 0 or an errno
os_chsize_err(w, h, NewSize, flt) ==
    IF ~is_open_h(w, h) THEN EBADF
    ELSE IF NewSize < 0 THEN EINVAL
    ELSE IF Faulty(flt, h) THEN (IF flt.kind = "err" THEN ENOSPC ELSE EACCES)
    ELSE 0

\* --------------------------------------------------------------- BasicFile
\* Each operation returns [w |-> the world afterwards, r |-> its result].

\* BasicFile::close(), WRITER version
BF_close(w, h) ==
    IF is_open_h(w, h)
    THEN LET c1 == IF good_h(w, h) THEN Called(w, h, "os_commit", 0)
                   ELSE w.calls IN
         [w EXCEPT !.fh[h] = -1, !.fpos[h] = 0, !.fapp[h] = FALSE,
                   !.calls = Append(c1, [h |-> h, fn |-> "close", r |-> 0])]
    ELSE w

\* BasicFile::open(Path, Flags): r is TRUE iff it returns non-zero
BF_open(w, h, Flags, flt) ==
    IF w.fh[h] # -1
    THEN LET w1 == [w EXCEPT !.ef[h] = {"reopen"}] IN
         [w |-> BF_close(w1, h), r |-> TRUE]
    ELSE LET err == os_open_err(w, h, Flags, flt)
             e1 == fill_open_errors(err)
             old == w.files[h].data
         IN IF err # 0
            THEN [w |-> [w EXCEPT !.ef[h] = e1 \cup {"open"},
                                  !.calls = Opened(w, h, Flags, err)],
                  r |-> TRUE]
            ELSE [w |-> [w EXCEPT
                          !.files[h] = [exists |-> TRUE,
                                        data |-> IF w.files[h].exists
                                                    /\ "TRUNC" \notin Flags
                                                 THEN old ELSE <<>>],
                          !.fh[h] = Descriptor(h),
                          !.fpos[h] = 0,
                          !.fapp[h] = ("APPEND" \in Flags),
                          !.ef[h] = e1,
                          !.calls = Opened(w, h, Flags, 0)],
                  r |-> ~ef_good(e1)]

\* FileRW::open_(Path, flags): TRUE iff opened
FRW_open_(w, h, Flags, flt) ==
    LET o == BF_open(w, h, Flags, flt) IN [w |-> o.w, r |-> ~o.r]

\* BasicFile::read(_Buf, Size): also yields the bytes delivered
BF_read(w, h, Size, flt) ==
    LET res == os_read_res(w, h, Size, flt)
        n == Max(res, 0)
        got == SubSeq(w.files[h].data, w.fpos[h] + 1, w.fpos[h] + n)
        e1 == IF res = Size THEN w.ef[h]
              ELSE w.ef[h] \cup {"read"}
                   \cup (IF res = -1 THEN {"invalid"} ELSE {})
    IN [w |-> [w EXCEPT !.fpos[h] = @ + n, !.ef[h] = e1,
                        !.calls = Called(w, h, "read", res)],
        r |-> res # Size, data |-> got]

\* a write that calls error_flags::reset() when it succeeds
BF_write_resetting(w, h, data, flt) ==
    LET Size == Len(data)
        res == os_write_res(w, h, Size, flt)
        n == Max(res, 0)
        start == IF w.fapp[h] THEN FLen(w, h) ELSE w.fpos[h]
        e1 == IF res = Size THEN w.ef[h] \ FailBits
              ELSE w.ef[h] \cup {"write"}
                   \cup (IF res = -1 THEN {"invalid"} ELSE {})
    IN [w |-> [w EXCEPT
                 !.files[h].data = OverWrite(@, start, SubSeq(data, 1, n)),
                 !.fpos[h] = IF n = 0 THEN @ ELSE start + n,
                 !.ef[h] = e1,
                 !.calls = Called(w, h, "write", res)],
        r |-> res # Size]

\* BasicFile::write(_Buf, Size)
BF_write(w, h, data, flt) ==
    LET Size == Len(data)
        res == os_write_res(w, h, Size, flt)
        n == Max(res, 0)
        start == IF w.fapp[h] THEN FLen(w, h) ELSE w.fpos[h]
        e1 == IF res = Size THEN w.ef[h]
              ELSE w.ef[h] \cup {"write"}
                   \cup (IF res = -1 THEN {"invalid"} ELSE {})
    IN [w |-> [w EXCEPT
                 !.files[h].data = OverWrite(@, start, SubSeq(data, 1, n)),
                 !.fpos[h] = IF n = 0 THEN @ ELSE start + n,
                 !.ef[h] = e1,
                 !.calls = Called(w, h, "write", res)],
        r |-> res # Size]

\* BasicFile::seek(Pos, Dir)
BF_seek(w, h, Pos, Dir, flt) ==
    LET res == os_seek_res(w, h, Pos, Dir, flt) IN
    [w |-> [w EXCEPT !.fpos[h] = IF res = -1 THEN @ ELSE res,
                     !.ef[h] = IF res = -1 THEN @ \cup {"seek", "invalid"}
                               ELSE @,
                     !.calls = Called(w, h, "seek", res)],
     r |-> res]

\* a tell that fails without recording it in the flags
BF_tell_silent(w, h, flt) ==
    LET res == IF ~is_open_h(w, h) \/ Faulty(flt, h) THEN -1 ELSE w.fpos[h] IN
    [w |-> [w EXCEPT !.calls = Called(w, h, "tell", res)], r |-> res]

\* BasicFile::tell()
BF_tell(w, h, flt) ==
    LET res == IF ~is_open_h(w, h) \/ Faulty(flt, h) THEN -1 ELSE w.fpos[h] IN
    [w |-> [w EXCEPT !.ef[h] = IF res = -1 THEN @ \cup {"invalid", "tell"}
                               ELSE @,
                     !.calls = Called(w, h, "tell", res)],
     r |-> res]

\* BasicFile::length()
BF_length(w, h, flt) ==
    LET res == IF ~is_open_h(w, h) \/ Faulty(flt, h) THEN -1
               ELSE FLen(w, h) IN
    [w |-> [w EXCEPT !.ef[h] = IF res = -1 THEN @ \cup {"invalid"} ELSE @,
                     !.calls = Called(w, h, "length", res)],
     r |-> res]

\* BasicFile::eof()
BF_eof(w, h, flt) ==
    LET res == IF ~is_open_h(w, h) \/ Faulty(flt, h) THEN -1
               ELSE IF w.fpos[h] >= FLen(w, h) THEN 1 ELSE 0 IN
    [w |-> [w EXCEPT !.ef[h] = IF res = -1 THEN @ \cup {"invalid"} ELSE @,
                     !.calls = Called(w, h, "eof", res)],
     r |-> res]

\* BasicFile::commit(): TRUE iff it failed
BF_commit(w, h, flt) ==
    IF is_open_h(w, h) /\ good_h(w, h)
    THEN LET res == IF Faulty(flt, h) THEN -1 ELSE 0 IN
         [w |-> [w EXCEPT !.ef[h] = IF res # 0 THEN @ \cup {"invalid"} ELSE @,
                          !.calls = Called(w, h, "commit", res)],
          r |-> res # 0]
    ELSE [w |-> [w EXCEPT !.calls = Called(w, h, "commit_refused", 1)],
          r |-> TRUE]

\* BasicFile::chsize(NewSize): TRUE iff it failed
BF_chsize(w, h, NewSize, flt) ==
    LET err == os_chsize_err(w, h, NewSize, flt)
        e1 == w.ef[h] \cup {"invalid"}
              \cup (IF Bit1(BitAnd(err, BitOr(EBADF, ENOSPC))) = 1
                    THEN {"eacces"} ELSE {})
              \cup (IF Bit1(BitAnd(err, EINVAL)) = 1 THEN {"einval"} ELSE {})
    IN IF err # 0
       THEN [w |-> [w EXCEPT !.ef[h] = e1,
                             !.calls = Called(w, h, "chsize", err)],
             r |-> TRUE]
       ELSE [w |-> [w EXCEPT !.files[h].data = Resize(@, NewSize),
                             !.calls = Called(w, h, "chsize", 0)],
             r |-> FALSE]

\* BasicFile::bad(): assigns the open bit from the handle
BF_bad(w, h) ==
    LET e1 == ef_bad_fh(w.ef[h], w.fh[h]) IN
    [w |-> [w EXCEPT !.ef[h] = e1], r |-> ef_bad(e1)]


\* --------------------------------------------------------------- MultiFile
\* FileRW::filter_open / filter_excl / filter_create; O_RDONLY is 0, and &
\* binds tighter than |
filter_open(flags) ==
    (flags \cup {"RDWR"}) \ ({} \cup ({"WRONLY"} \cap {"CREAT"} \cap {"EXCL"}))
filter_excl(flags) ==
    (flags \cup {"RDWR", "CREAT", "EXCL"}) \ ({} \cup {"WRONLY"})
filter_create(flags) ==
    (flags \cup {"RDWR", "CREAT"}) \ ({} \cup ({"WRONLY"} \cap {"EXCL"}))

Resolve(kind, flags) ==
    CASE kind = "open" -> filter_open(flags)
      [] kind = "excl" -> filter_excl(flags)
      [] kind = "create" -> filter_create(flags)

\* open_ that closes the secondaries before it resets the count
RECURSIVE close_secondaries(_, _)
close_secondaries(w, i) ==
    IF i > MaxCopies THEN w ELSE close_secondaries(BF_close(w, i), i + 1)
MF_open_closing(w, Flags, flt) ==
    LET o == FRW_open_(close_secondaries(w, 1), 0, Flags, flt) IN
    [w |-> o.w, r |-> o.r, n |-> 0, fl |-> Flags]

\* MultiFile::open_: r is its result, n and fl the new NumCopies and OpenFlags
MF_open_(w, Flags, flt) ==
    LET o == FRW_open_(w, 0, Flags, flt) IN
    [w |-> o.w, r |-> o.r, n |-> 0, fl |-> Flags]

\* add that opens the secondary with create flags of its own
MF_add_own_flags(w, n, fl, flt) ==
    IF n < 0 \/ n >= MaxCopies THEN [w |-> w, r |-> FALSE, n |-> n]
    ELSE LET o == FRW_open_(w, n + 1, filter_create({}), flt) IN
         IF ~o.r THEN [w |-> o.w, r |-> FALSE, n |-> n]
         ELSE [w |-> o.w, r |-> TRUE, n |-> n + 1]

\* add that counts the secondary it rejected
MF_add_counts_rejected(w, n, fl, flt) ==
    IF n < 0 \/ n >= MaxCopies THEN [w |-> w, r |-> FALSE, n |-> n + 1]
    ELSE LET o == FRW_open_(w, n + 1, fl, flt) IN
         IF ~o.r THEN [w |-> o.w, r |-> FALSE, n |-> n]
         ELSE [w |-> o.w, r |-> TRUE, n |-> n + 1]

\* add that counts the secondary although its open failed
MF_add_counts_failure(w, n, fl, flt) ==
    IF n < 0 \/ n >= MaxCopies THEN [w |-> w, r |-> FALSE, n |-> n]
    ELSE LET o == FRW_open_(w, n + 1, fl, flt) IN
         [w |-> o.w, r |-> o.r, n |-> n + 1]

\* add that refuses while the primary is closed
MF_add_needs_primary(w, n, fl, flt) ==
    IF n < 0 \/ n >= MaxCopies \/ w.fh[0] = -1
    THEN [w |-> w, r |-> FALSE, n |-> n]
    ELSE LET o == FRW_open_(w, n + 1, fl, flt) IN
         IF ~o.r THEN [w |-> o.w, r |-> FALSE, n |-> n]
         ELSE [w |-> o.w, r |-> TRUE, n |-> n + 1]

\* add that moves the new secondary to the primary's position
MF_add_at_primary_offset(w, n, fl, flt) ==
    IF n < 0 \/ n >= MaxCopies THEN [w |-> w, r |-> FALSE, n |-> n]
    ELSE LET o == FRW_open_(w, n + 1, fl, flt) IN
         IF ~o.r THEN [w |-> o.w, r |-> FALSE, n |-> n]
         ELSE [w |-> [o.w EXCEPT !.fpos[n + 1] = w.fpos[0]], r |-> TRUE,
               n |-> n + 1]

\* MultiFile::add
MF_add(w, n, fl, flt) ==
    IF n < 0 \/ n >= MaxCopies THEN [w |-> w, r |-> FALSE, n |-> n]
    ELSE LET o == FRW_open_(w, n + 1, fl, flt) IN
         IF ~o.r THEN [w |-> o.w, r |-> FALSE, n |-> n]
         ELSE [w |-> o.w, r |-> TRUE, n |-> n + 1]

\* MultiFile::close
\* close_loop that walks the secondaries from the last one down
RECURSIVE close_loop_backwards(_, _, _)
close_loop_backwards(w, i, n) ==
    IF i > n THEN w
    ELSE close_loop_backwards(BF_close(w, n + 1 - i), i + 1, n)

\* close_loop that leaves the last active secondary open
RECURSIVE close_loop_one_short(_, _, _)
close_loop_one_short(w, i, n) ==
    IF i >= n THEN w ELSE close_loop_one_short(BF_close(w, i), i + 1, n)

RECURSIVE close_loop(_, _, _)
close_loop(w, i, n) ==
    IF i > n THEN w ELSE close_loop(BF_close(w, i), i + 1, n)
MF_close(w, n) == close_loop(BF_close(w, 0), 1, n)

\* bad_step that keeps only the answer of the participant asked last
bad_step_last_wins(w, i, B) ==
    LET c == BF_bad(w, i) IN [w |-> c.w, r |-> c.r]

\* MultiFile::bad
bad_step(w, i, B) ==
    LET c == BF_bad(w, i) IN [w |-> c.w, r |-> B \/ c.r]
RECURSIVE bad_loop(_, _, _, _)
bad_loop(w, i, n, B) ==
    IF i > n THEN [w |-> w, r |-> B]
    ELSE LET s == bad_step(w, i, B) IN bad_loop(s.w, i + 1, n, s.r)
MF_bad(w, n) == LET p == BF_bad(w, 0) IN bad_loop(p.w, 1, n, p.r)

\* MultiFile::fail, good, is_open, is_closed
RECURSIVE fail_loop(_, _, _, _)
fail_loop(w, i, n, B) ==
    IF i > n THEN B ELSE fail_loop(w, i + 1, n, B \/ fail_h(w, i))
MF_fail(w, n) == fail_loop(w, 1, n, fail_h(w, 0))

\* good that asks the primary alone
MF_good_primary_only(w, n) == good_h(w, 0)

RECURSIVE good_loop(_, _, _, _)
good_loop(w, i, n, B) ==
    IF i > n THEN B ELSE good_loop(w, i + 1, n, B /\ good_h(w, i))
MF_good(w, n) == good_loop(w, 1, n, good_h(w, 0))

RECURSIVE is_open_loop(_, _, _, _)
is_open_loop(w, i, n, B) ==
    IF i > n THEN B ELSE is_open_loop(w, i + 1, n, B /\ is_open_h(w, i))
MF_is_open(w, n) == is_open_loop(w, 1, n, is_open_h(w, 0))

RECURSIVE is_closed_loop(_, _, _, _)
is_closed_loop(w, i, n, B) ==
    IF i > n THEN B ELSE is_closed_loop(w, i + 1, n, B \/ is_open_h(w, i))
MF_is_closed(w, n) == ~is_closed_loop(w, 1, n, is_open_h(w, 0))

\* MultiFile::eflags
RECURSIVE eflags_loop(_, _, _, _)
eflags_loop(w, i, n, fl) ==
    IF i > n THEN fl ELSE eflags_loop(w, i + 1, n, fl \cup w.ef[i])
MF_eflags(w, n) == eflags_loop(w, 1, n, w.ef[0])

\* MultiFile::eof
\* eof_step that forgets an earlier disagreement
eof_step_forgetful(w, i, flt, R) ==
    LET c == BF_eof(w, i, flt)
    IN [w |-> c.w, r |-> IF R # -1 /\ c.r # R THEN -1 ELSE c.r]

eof_step(w, i, flt, R) ==
    LET c == BF_eof(w, i, flt) IN [w |-> c.w, r |-> IF c.r # R THEN -1 ELSE R]
RECURSIVE eof_loop(_, _, _, _, _)
eof_loop(w, i, n, flt, R) ==
    IF i > n THEN [w |-> w, r |-> R]
    ELSE LET s == eof_step(w, i, flt, R) IN eof_loop(s.w, i + 1, n, flt, s.r)
MF_eof(w, n, flt) ==
    LET p == BF_eof(w, 0, flt) IN eof_loop(p.w, 1, n, flt, p.r)

\* MultiFile::commit
commit_step(w, i, flt, B) ==
    LET c == BF_commit(w, i, flt) IN [w |-> c.w, r |-> B /\ c.r]
RECURSIVE commit_loop(_, _, _, _, _)
commit_loop(w, i, n, flt, B) ==
    IF i > n THEN [w |-> w, r |-> B]
    ELSE LET s == commit_step(w, i, flt, B)
         IN commit_loop(s.w, i + 1, n, flt, s.r)
MF_commit(w, n, flt) ==
    LET p == BF_commit(w, 0, flt) IN commit_loop(p.w, 1, n, flt, p.r)

\* MultiFile::length
length_step(w, i, flt, L) ==
    LET c == BF_length(w, i, flt) IN
    [w |-> c.w, r |-> IF c.r # L THEN -1 ELSE L]
RECURSIVE length_loop(_, _, _, _, _)
length_loop(w, i, n, flt, L) ==
    IF i > n THEN [w |-> w, r |-> L]
    ELSE LET s == length_step(w, i, flt, L)
         IN length_loop(s.w, i + 1, n, flt, s.r)
MF_length(w, n, flt) ==
    LET p == BF_length(w, 0, flt) IN length_loop(p.w, 1, n, flt, p.r)

\* MultiFile::seek
seek_step(w, i, Pos, Dir, flt, P) ==
    LET c == BF_seek(w, i, Pos, Dir, flt) IN
    [w |-> c.w, r |-> IF P # c.r THEN -1 ELSE P]
\* seek_loop that leaves the last active secondary where it is
RECURSIVE seek_loop_one_short(_, _, _, _, _, _, _)
seek_loop_one_short(w, i, n, Pos, Dir, flt, P) ==
    IF i >= n THEN [w |-> w, r |-> P]
    ELSE LET s == seek_step(w, i, Pos, Dir, flt, P)
         IN seek_loop_one_short(s.w, i + 1, n, Pos, Dir, flt, s.r)

RECURSIVE seek_loop(_, _, _, _, _, _, _)
seek_loop(w, i, n, Pos, Dir, flt, P) ==
    IF i > n THEN [w |-> w, r |-> P]
    ELSE LET s == seek_step(w, i, Pos, Dir, flt, P)
         IN seek_loop(s.w, i + 1, n, Pos, Dir, flt, s.r)
MF_seek(w, n, Pos, Dir, flt) ==
    LET p == BF_seek(w, 0, Pos, Dir, flt)
    IN seek_loop(p.w, 1, n, Pos, Dir, flt, p.r)

\* MultiFile::tell
\* tell_step that forgets an earlier disagreement
tell_step_forgetful(w, i, flt, P) ==
    LET c == BF_tell(w, i, flt) IN
    [w |-> c.w, r |-> IF P # c.r /\ P # -1 THEN -1 ELSE c.r]

tell_step(w, i, flt, P) ==
    LET c == BF_tell(w, i, flt) IN
    [w |-> c.w, r |-> IF P # c.r THEN -1 ELSE P]
RECURSIVE tell_loop(_, _, _, _, _)
tell_loop(w, i, n, flt, P) ==
    IF i > n THEN [w |-> w, r |-> P]
    ELSE LET s == tell_step(w, i, flt, P) IN tell_loop(s.w, i + 1, n, flt, s.r)
MF_tell(w, n, flt) ==
    LET p == BF_tell(w, 0, flt) IN tell_loop(p.w, 1, n, flt, p.r)

\* MultiFile::chsize
\* chsize_step that skips the resize once a participant has failed
chsize_step_short_circuit(w, i, NewSize, flt, Error) ==
    IF Error THEN [w |-> w, r |-> Error]
    ELSE LET c == BF_chsize(w, i, NewSize, flt) IN [w |-> c.w, r |-> c.r]

chsize_step(w, i, NewSize, flt, Error) ==
    LET c == BF_chsize(w, i, NewSize, flt) IN [w |-> c.w, r |-> Error \/ c.r]
RECURSIVE chsize_loop(_, _, _, _, _, _)
chsize_loop(w, i, n, NewSize, flt, Error) ==
    IF i > n THEN [w |-> w, r |-> Error]
    ELSE LET s == chsize_step(w, i, NewSize, flt, Error)
         IN chsize_loop(s.w, i + 1, n, NewSize, flt, s.r)
MF_chsize(w, n, NewSize, flt) ==
    LET p == BF_chsize(w, 0, NewSize, flt)
    IN chsize_loop(p.w, 1, n, NewSize, flt, p.r)

\* MultiFile::write
\* write_step that stops writing once a participant has failed
write_step_short_circuit(w, i, data, flt, Error) ==
    IF Error THEN [w |-> w, r |-> Error]
    ELSE LET c == BF_write(w, i, data, flt) IN [w |-> c.w, r |-> c.r]

write_step(w, i, data, flt, Error) ==
    LET c == BF_write(w, i, data, flt) IN [w |-> c.w, r |-> c.r \/ Error]
\* write_loop that stops one secondary early
RECURSIVE write_loop_one_short(_, _, _, _, _, _)
write_loop_one_short(w, i, n, data, flt, Error) ==
    IF i >= n THEN [w |-> w, r |-> Error]
    ELSE LET s == write_step(w, i, data, flt, Error)
         IN write_loop_one_short(s.w, i + 1, n, data, flt, s.r)

RECURSIVE write_loop(_, _, _, _, _, _)
write_loop(w, i, n, data, flt, Error) ==
    IF i > n THEN [w |-> w, r |-> Error]
    ELSE LET s == write_step(w, i, data, flt, Error)
         IN write_loop(s.w, i + 1, n, data, flt, s.r)
MF_write(w, n, data, flt) ==
    LET p == BF_write(w, 0, data, flt)
    IN write_loop(p.w, 1, n, data, flt, p.r)

\* MultiFile::read.  Ptr is the caller's buffer, Buf the verification buffer;
\* a read overwrites the first res bytes of its target and leaves the rest.
Into(target, got) == got \o SubSeq(target, Len(got) + 1, Len(target))

\* read_step that skips the secondary once the call has failed
read_step_short_circuit(w, i, Size, flt, Ptr, Buf, Error) ==
    IF Error THEN [w |-> w, Buf |-> Buf, r |-> Error]
    ELSE LET c == BF_read(w, i, Size, flt)
             Buf1 == Into(Buf, c.data)
             E1 == c.r \/ fail_h(c.w, i) \/ Error
         IN [w |-> c.w, Buf |-> Buf1, r |-> (Ptr # Buf1) \/ E1]

\* read_step with the sense of the comparison inverted
read_step_inverted(w, i, Size, flt, Ptr, Buf, Error) ==
    LET c == BF_read(w, i, Size, flt)
        Buf1 == Into(Buf, c.data)
        E1 == c.r \/ fail_h(c.w, i) \/ Error
    IN [w |-> c.w, Buf |-> Buf1, r |-> (Ptr = Buf1) \/ E1]

\* read_step without the comparison against the primary's bytes
read_step_unverified(w, i, Size, flt, Ptr, Buf, Error) ==
    LET c == BF_read(w, i, Size, flt)
        Buf1 == Into(Buf, c.data)
        E1 == c.r \/ fail_h(c.w, i) \/ Error
    IN [w |-> c.w, Buf |-> Buf1, r |-> E1]

\* read_step that does not ask the secondary's fail()
read_step_ignoring_flags(w, i, Size, flt, Ptr, Buf, Error) ==
    LET c == BF_read(w, i, Size, flt)
        Buf1 == Into(Buf, c.data)
        E1 == c.r \/ Error
    IN [w |-> c.w, Buf |-> Buf1, r |-> (Ptr # Buf1) \/ E1]

\* read_step that copies the primary's bytes over a secondary that differs
read_step_repairing(w, i, Size, flt, Ptr, Buf, Error) ==
    LET c == BF_read(w, i, Size, flt)
        Buf1 == Into(Buf, c.data)
        E1 == c.r \/ fail_h(c.w, i) \/ Error
        w1 == IF Ptr # Buf1
              THEN [c.w EXCEPT !.files[i].data = OverWrite(@, w.fpos[i], Ptr)]
              ELSE c.w
    IN [w |-> w1, Buf |-> Buf1, r |-> (Ptr # Buf1) \/ E1]

read_step(w, i, Size, flt, Ptr, Buf, Error) ==
    LET c == BF_read(w, i, Size, flt)
        Buf1 == Into(Buf, c.data)
        E1 == c.r \/ fail_h(c.w, i) \/ Error
    IN [w |-> c.w, Buf |-> Buf1, r |-> (Ptr # Buf1) \/ E1]
RECURSIVE read_loop(_, _, _, _, _, _, _, _)
read_loop(w, i, n, Size, flt, Ptr, Buf, Error) ==
    IF i > n THEN [w |-> w, r |-> Error, Ptr |-> Ptr, Buf |-> Buf]
    ELSE LET s == read_step(w, i, Size, flt, Ptr, Buf, Error)
         IN read_loop(s.w, i + 1, n, Size, flt, Ptr, s.Buf, s.r)
MF_read(w, n, Size, Ptr0, Buf0, flt) ==
    LET Buf == Resize(Buf0, Size)
        p == BF_read(w, 0, Size, flt)
        Ptr == Into(Ptr0, p.data)
    IN read_loop(p.w, 1, n, Size, flt, Ptr, Buf, p.r \/ fail_h(p.w, 0))

\* ---------------------------------------------------------------- compare
\* FileRO::filter_open
FRO_filter_open(flags) ==
    flags \ {"RDWR", "TRUNC", "WRONLY", "APPEND", "CREAT", "EXCL"}

\* int(cnt): the conversion of the 64-bit count to int
Int32(x) ==
    IF x <= 2147483647 THEN x ELSE ((x - 2147483647) - 2147483647) - 2

\* FileRO::open of path p inside compare: TRUE iff opened; an "err" fault
\* makes the open fail, a "short" fault makes the reads fail
cmp_open(fs, p, flt) ==
    os_open_err([files |-> fs], p, FRO_filter_open({"BINARY"}),
                IF flt.kind = "err" THEN flt ELSE NoFault) = 0
cmp_read_fails(p, flt) == Faulty(flt, p) /\ flt.kind = "short"

\* the differing bytes of one chunk
chunk_diff(V1, V2, L) == Cardinality({i \in 1..L : V1[i] # V2[i]})

\* the loop of compare that counts only within the first chunk
RECURSIVE compare_loop_first_chunk(_, _, _, _, _, _, _, _)
compare_loop_first_chunk(d1, d2, p1, p2, flt, L1, pos, cnt) ==
    IF L1 = 0 THEN Int32(cnt)
    ELSE LET L == IF L1 > ChunkSize THEN ChunkSize ELSE L1 IN
         IF cmp_read_fails(p1, flt) THEN -1
         ELSE IF cmp_read_fails(p2, flt) THEN -1
         ELSE compare_loop_first_chunk(d1, d2, p1, p2, flt, L1 - L, pos + L,
                 IF pos > 0 THEN cnt
                 ELSE cnt + chunk_diff(SubSeq(d1, pos + 1, pos + L),
                                       SubSeq(d2, pos + 1, pos + L), L))

\* the while loop of compare: L1 bytes remain from offset pos
RECURSIVE compare_loop(_, _, _, _, _, _, _, _)
compare_loop(d1, d2, p1, p2, flt, L1, pos, cnt) ==
    IF L1 = 0 THEN Int32(cnt)
    ELSE LET L == IF L1 > ChunkSize THEN ChunkSize ELSE L1 IN
         IF cmp_read_fails(p1, flt) THEN -1
         ELSE IF cmp_read_fails(p2, flt) THEN -1
         ELSE compare_loop(d1, d2, p1, p2, flt, L1 - L, pos + L,
                 cnt + chunk_diff(SubSeq(d1, pos + 1, pos + L),
                                  SubSeq(d2, pos + 1, pos + L), L))

\* compare(P1, P2) on the file system fs
compare(fs, p1, p2, flt) ==
    IF ~cmp_open(fs, p1, flt) THEN -1
    ELSE IF ~cmp_open(fs, p2, flt) THEN -1
    ELSE LET L1 == Len(fs[p1].data)
             L2 == Len(fs[p2].data)
         IN IF L1 < L2 THEN -1
            ELSE IF L1 > L2 THEN -1
            ELSE compare_loop(fs[p1].data, fs[p2].data, p1, p2, flt, L1, 0, 0)

\* ----------------------------------------------------------------- inputs
CallerFlags == {{}}
OpenKinds == {"open", "create", "excl"}
FaultKinds == {"err", "short"}
SeekDirs == {"SET", "CUR", "END"}
\* what the caller's buffer holds before a read
FillBytes == {MaxByte}

Active == 0..NumCopies
\* the operations that set up and tear down the coordinator
LifeCycle == OpenKinds \cup {"add", "close"}

\* the fault patterns that may be injected into a call on the participants hs
FaultsOf(hs, kinds) ==
    {NoFault} \cup
    {[at |-> S, kind |-> k] :
        S \in {T \in SUBSET hs : T # {} /\ Cardinality(T) <= MaxFaults - nfaults},
        k \in kinds}
\* calls that return a count or an errno fail in two ways, the others in one
Faults(hs) == FaultsOf(hs, FaultKinds)
Faults1(hs) == FaultsOf(hs, {"err"})

Datas == UNION {[1..n -> Byte] : n \in 0..MaxLen}
Fill(n, b) == [k \in 1..n |-> b]

NoTrip == [st |-> "none", B |-> <<>>]

Apply(w) ==
    /\ files' = w.files
    /\ f_handle' = w.fh
    /\ f_pos' = w.fpos
    /\ f_app' = w.fapp
    /\ e_flags' = w.ef
    /\ calls' = w.calls

Did(name, args, r, flt) ==
    /\ op' = [name |-> name, args |-> args]
    /\ ret' = r
    /\ nfaults' = nfaults + Cardinality(flt.at)
    /\ nops' = IF name \in LifeCycle THEN nops ELSE nops + 1
    /\ nopens' = IF name \in OpenKinds THEN nopens + 1 ELSE nopens
    /\ UNCHANGED thr

\* ------------------------------------------------------------------- Init
Init ==
    /\ files = [h \in Participants |-> [exists |-> FALSE, data |-> <<>>]]
    /\ f_handle = [h \in Participants |-> -1]
    /\ f_pos = [h \in Participants |-> 0]
    /\ f_app = [h \in Participants |-> FALSE]
    /\ e_flags = [h \in Participants |-> {"open"}]
    /\ NumCopies = 0
    /\ OpenFlags = {}
    /\ buffer = <<>>
    /\ op = [name |-> "init", args |-> <<>>]
    /\ ret = FALSE
    /\ ubuf = <<>>
    /\ calls = <<>>
    /\ roundTrip = NoTrip
    /\ nfaults = 0
    /\ nops = 0
    /\ nopens = 0
    /\ thr = <<>>

\* ---------------------------------------------------------------- actions
\* MultiFile::open / excl / create
OpenOp(kind, flags, flt) ==
    \E o \in {MF_open_(World, Resolve(kind, flags), flt)} :
    /\ Apply(o.w)
    /\ NumCopies' = o.n
    /\ OpenFlags' = o.fl
    /\ Did(kind, <<flags>>, o.r, flt)
    /\ roundTrip' = NoTrip
    /\ UNCHANGED <<buffer, ubuf>>

Add(flt) ==
    \E o \in {MF_add(World, NumCopies, OpenFlags, flt)} :
    /\ Apply(o.w)
    /\ NumCopies' = o.n
    /\ Did("add", <<>>, o.r, flt)
    /\ roundTrip' = NoTrip
    /\ UNCHANGED <<OpenFlags, buffer, ubuf>>

Close ==
    /\ Apply(MF_close(World, NumCopies))
    /\ Did("close", <<>>, FALSE, NoFault)
    /\ roundTrip' = NoTrip
    /\ UNCHANGED <<NumCopies, OpenFlags, buffer, ubuf>>

Bad ==
    \E o \in {MF_bad(World, NumCopies)} :
    /\ Apply(o.w)
    /\ Did("bad", <<>>, o.r, NoFault)
    /\ roundTrip' = NoTrip
    /\ UNCHANGED <<NumCopies, OpenFlags, buffer, ubuf>>

\* fail, good, is_open, is_closed, eflags: no participant is changed
Query(name) ==
    /\ Apply(World)
    /\ Did(name, <<>>,
           CASE name = "fail" -> MF_fail(World, NumCopies)
             [] name = "good" -> MF_good(World, NumCopies)
             [] name = "is_open" -> MF_is_open(World, NumCopies)
             [] name = "is_closed" -> MF_is_closed(World, NumCopies)
             [] name = "eflags" -> MF_eflags(World, NumCopies),
           NoFault)
    /\ roundTrip' = NoTrip
    /\ UNCHANGED <<NumCopies, OpenFlags, buffer, ubuf>>

Eof(flt) ==
    \E o \in {MF_eof(World, NumCopies, flt)} :
    /\ Apply(o.w)
    /\ Did("eof", <<>>, o.r, flt)
    /\ roundTrip' = NoTrip
    /\ UNCHANGED <<NumCopies, OpenFlags, buffer, ubuf>>

Commit(flt) ==
    \E o \in {MF_commit(World, NumCopies, flt)} :
    /\ Apply(o.w)
    /\ Did("commit", <<>>, o.r, flt)
    /\ roundTrip' = NoTrip
    /\ UNCHANGED <<NumCopies, OpenFlags, buffer, ubuf>>

Length(flt) ==
    \E o \in {MF_length(World, NumCopies, flt)} :
    /\ Apply(o.w)
    /\ Did("length", <<>>, o.r, flt)
    /\ roundTrip' = NoTrip
    /\ UNCHANGED <<NumCopies, OpenFlags, buffer, ubuf>>

Tell(flt) ==
    \E o \in {MF_tell(World, NumCopies, flt)} :
    /\ Apply(o.w)
    /\ Did("tell", <<>>, o.r, flt)
    /\ roundTrip' = NoTrip
    /\ UNCHANGED <<NumCopies, OpenFlags, buffer, ubuf>>

\* every participant was moved back by the length of the bytes just written
SoughtBack(w) ==
    \A h \in Active :
        /\ is_open_h(World, h)
        /\ w.fpos[h] = f_pos[h] - Len(roundTrip.B)
        /\ w.ef[h] = {}

Seek(Pos, Dir, flt) ==
    \E o \in {MF_seek(World, NumCopies, Pos, Dir, flt)} :
    /\ \A h \in Active : o.w.fpos[h] <= MaxLen
    /\ Apply(o.w)
    /\ Did("seek", <<Pos, Dir>>, o.r, flt)
    /\ roundTrip' = IF roundTrip.st = "written" /\ flt = NoFault
                       /\ SoughtBack(o.w)
                    THEN [roundTrip EXCEPT !.st = "sought"] ELSE NoTrip
    /\ UNCHANGED <<NumCopies, OpenFlags, buffer, ubuf>>

Chsize(NewSize, flt) ==
    \E o \in {MF_chsize(World, NumCopies, NewSize, flt)} :
    /\ Apply(o.w)
    /\ Did("chsize", <<NewSize>>, o.r, flt)
    /\ roundTrip' = NoTrip
    /\ UNCHANGED <<NumCopies, OpenFlags, buffer, ubuf>>

\* every participant is open and free of error flags
AllHealthy ==
    \A h \in Active : is_open_h(World, h) /\ e_flags[h] = {}

Write(data, flt) ==
    \E o \in {MF_write(World, NumCopies, data, flt)} :
    /\ \A h \in Active : Len(o.w.files[h].data) <= MaxLen
    /\ Apply(o.w)
    /\ Did("write", <<data>>, o.r, flt)
    /\ roundTrip' = IF AllHealthy /\ flt = NoFault
                    THEN [st |-> "written", B |-> data] ELSE NoTrip
    /\ UNCHANGED <<NumCopies, OpenFlags, buffer, ubuf>>

Read(Size, fill, flt) ==
    \E o \in {MF_read(World, NumCopies, Size, Fill(Size, fill), buffer, flt)} :
    /\ Apply(o.w)
    /\ buffer' = o.Buf
    /\ ubuf' = o.Ptr
    /\ Did("read", <<Size, fill>>, o.r, flt)
    /\ roundTrip' = IF roundTrip.st = "sought" /\ flt = NoFault
                       /\ Size = Len(roundTrip.B)
                    THEN [roundTrip EXCEPT !.st = "read"] ELSE NoTrip
    /\ UNCHANGED <<NumCopies, OpenFlags>>

\* compare(P1, P2): it opens handles of its own and changes nothing
Compare(p1, p2, flt) ==
    /\ Did("compare", <<p1, p2>>, compare(files, p1, p2, flt), flt)
    /\ calls' = <<>>
    /\ roundTrip' = NoTrip
    /\ UNCHANGED <<files, f_handle, f_pos, f_app, e_flags, NumCopies,
                   OpenFlags, buffer, ubuf>>

\* ----------------------------------------------------------- environment
\* another process overwrites byte k of the file at path h
Tamper(h, k, b) ==
    /\ nfaults < MaxFaults
    /\ files[h].exists
    /\ k \in 1..Len(files[h].data)
    /\ b # files[h].data[k]
    /\ files' = [files EXCEPT ![h].data[k] = b]
    /\ nfaults' = nfaults + 1
    /\ op' = [name |-> "tamper", args |-> <<h, k, b>>]
    /\ roundTrip' = NoTrip
    /\ calls' = <<>>
    /\ UNCHANGED <<f_handle, f_pos, f_app, e_flags, NumCopies, OpenFlags,
                   buffer, ret, ubuf, nops, nopens, thr>>

\* one participant's handle is closed behind the coordinator's back
CloseOutOfBand(h) ==
    /\ nfaults < MaxFaults
    /\ h \in Active
    /\ f_handle[h] # -1
    /\ Apply(BF_close(World, h))
    /\ nfaults' = nfaults + 1
    /\ op' = [name |-> "close_out_of_band", args |-> <<h>>]
    /\ roundTrip' = NoTrip
    /\ UNCHANGED <<NumCopies, OpenFlags, buffer, ret, ubuf, nops, nopens,
                   thr>>

\* somebody else creates the (empty) file of participant h
Touch(h) ==
    /\ ~files[h].exists
    /\ files' = [files EXCEPT ![h].exists = TRUE]
    /\ op' = [name |-> "touch", args |-> <<h>>]
    /\ roundTrip' = NoTrip
    /\ calls' = <<>>
    /\ UNCHANGED <<f_handle, f_pos, f_app, e_flags, NumCopies, OpenFlags,
                   buffer, ret, ubuf, nfaults, nops, nopens, thr>>

\* ------------------------------------------------------------------- Next
\* the positioning, I/O and query operations, with the fault patterns fs(hs)
Operate ==
    \/ Bad
    \/ \E name \in {"fail", "good", "is_open", "is_closed", "eflags"} :
          Query(name)
    \/ \E flt \in Faults1(Active) : Eof(flt)
    \/ \E flt \in Faults1(Active) : Commit(flt)
    \/ \E flt \in Faults1(Active) : Length(flt)
    \/ \E flt \in Faults1(Active) : Tell(flt)
    \/ \E Pos \in (0 - 1)..MaxLen, Dir \in SeekDirs, flt \in Faults1(Active) :
          Seek(Pos, Dir, flt)
    \/ \E NewSize \in (0 - 1)..MaxLen, flt \in Faults(Active) :
          Chsize(NewSize, flt)
    \/ \E data \in Datas, flt \in Faults(Active) : Write(data, flt)
    \/ \E Size \in 0..MaxLen, fill \in FillBytes, flt \in Faults(Active) :
          Read(Size, fill, flt)

Intervene ==
    \/ \E h \in Participants, k \in 1..MaxLen, b \in Byte : Tamper(h, k, b)
    \/ \E h \in Participants : CloseOutOfBand(h)

\* One session: the primary is opened once, the secondaries are added before
\* the first operation, then operations run with injected faults and
\* external interventions.
OpenOnce ==
    /\ nopens < 1
    /\ \E kind \in {"open", "create"}, flags \in CallerFlags :
          OpenOp(kind, flags, NoFault)

Next ==
    \/ OpenOnce
    \/ nops = 0 /\ nfaults = 0 /\ Add(NoFault)
    \/ nops < MaxOps /\ Operate
    \/ Intervene

Spec == Init /\ [][Next]_vars


\* The life cycle: open / create / excl, add and close in any order, with
\* failing opens, and the state queries in between.
LifeCycleOps ==
    \/ /\ nopens < MaxOpens
       /\ \E kind \in OpenKinds, flags \in CallerFlags, flt \in Faults({0}) :
             OpenOp(kind, flags, flt)
    \/ \E flt \in Faults({NumCopies + 1}) : Add(flt)
    \/ Close

Queries ==
    \/ Bad
    \/ \E name \in {"fail", "good", "is_open", "is_closed", "eflags"} :
          Query(name)

NextLife ==
    \/ LifeCycleOps
    \/ nops < MaxOps /\ Queries

SpecLife == Init /\ [][NextLife]_vars

\* Fault-free writing, seeking and reading, with secondaries added at any time.
RoundTripOps ==
    \/ \E data \in Datas : Write(data, NoFault)
    \/ \E Pos \in (0 - MaxLen)..MaxLen, Dir \in SeekDirs :
          Seek(Pos, Dir, NoFault)
    \/ \E Size \in 0..MaxLen, fill \in FillBytes : Read(Size, fill, NoFault)

NextRoundTrip ==
    \/ OpenOnce
    \/ Add(NoFault)
    \/ nops < MaxTripOps /\ RoundTripOps

SpecRoundTrip == Init /\ [][NextRoundTrip]_vars

\* Fault-free writing, seeking and reading on secondaries added up front, with
\* a file mutated from outside.
NextTamper ==
    \/ OpenOnce
    \/ nops = 0 /\ Add(NoFault)
    \/ nops < MaxTripOps /\ RoundTripOps
    \/ \E h \in Participants, k \in 1..MaxLen, b \in Byte : Tamper(h, k, b)

SpecTamper == Init /\ [][NextTamper]_vars

\* Opening with every flags argument: files may exist beforehand, the primary
\* is opened once by open, create or excl, secondaries are added and all is
\* closed.
AnyCallerFlags == SUBSET {"WRONLY", "CREAT", "EXCL", "TRUNC", "APPEND"}

NextOpen ==
    \/ nopens = 0 /\ \E h \in Participants : Touch(h)
    \/ /\ nopens < 1
       /\ \E kind \in OpenKinds, flags \in AnyCallerFlags :
             OpenOp(kind, flags, NoFault)
    \/ Add(NoFault)
    \/ Close

SpecOpen == Init /\ [][NextOpen]_vars

\* compare on two files that exist beforehand or not: empty, one byte, one
\* chunk, one chunk and a byte, with bytes set at the ends of the chunks
ComparePaths == {0, 1}
CompareLens == {0, 1, ChunkSize, ChunkSize + 1}
CompareFiles ==
    {[exists |-> FALSE, data |-> <<>>]} \cup
    {[exists |-> TRUE, data |-> [k \in 1..L |-> IF k \in D THEN 1 ELSE 0]] :
        L \in CompareLens, D \in SUBSET {1, ChunkSize, ChunkSize + 1}}

InitCompare ==
    /\ \E A \in CompareFiles, B \in CompareFiles :
          files = [h \in Participants |->
                      IF h = 0 THEN A
                      ELSE IF h = 1 THEN B
                      ELSE [exists |-> FALSE, data |-> <<>>]]
    /\ f_handle = [h \in Participants |-> -1]
    /\ f_pos = [h \in Participants |-> 0]
    /\ f_app = [h \in Participants |-> FALSE]
    /\ e_flags = [h \in Participants |-> {"open"}]
    /\ NumCopies = 0
    /\ OpenFlags = {}
    /\ buffer = <<>>
    /\ op = [name |-> "init", args |-> <<>>]
    /\ ret = FALSE
    /\ ubuf = <<>>
    /\ calls = <<>>
    /\ roundTrip = NoTrip
    /\ nfaults = 0
    /\ nops = 0
    /\ nopens = 0
    /\ thr = <<>>

NextCompare ==
    /\ nops < MaxOps
    /\ \E p1 \in ComparePaths, p2 \in ComparePaths :
          \E flt \in Faults({p1, p2}) : Compare(p1, p2, flt)

SpecCompare == InitCompare /\ [][NextCompare]_vars

\* Mirroring: the primary is created on a fresh file, the secondaries are
\* added on fresh files before the first write, writes run without faults,
\* the coordinator is closed, and compare is applied to pairs of the files.
NextMirror ==
    \/ nopens < 1 /\ \E flags \in CallerFlags : OpenOp("create", flags, NoFault)
    \/ f_handle[0] # -1 /\ nops = 0 /\ Add(NoFault)
    \/ /\ f_handle[0] # -1
       /\ nops < MaxTripOps
       /\ \E data \in Datas : Write(data, NoFault)
    \/ f_handle[0] # -1 /\ Close
    \/ /\ nops <= MaxTripOps
       /\ \E p1 \in Active, p2 \in Active : Compare(p1, p2, NoFault)

SpecMirror == Init /\ [][NextMirror]_vars

\* One session in which the caller may close the coordinator at any time and
\* go on calling it: the fan-out operations with injected faults, on whole
\* blocks of MaxLen bytes.
FanOut ==
    \/ \E flt \in Faults1(Active) : Eof(flt)
    \/ \E flt \in Faults1(Active) : Commit(flt)
    \/ \E flt \in Faults1(Active) : Length(flt)
    \/ \E flt \in Faults1(Active) : Tell(flt)
    \/ \E Pos \in {0, MaxLen}, flt \in Faults1(Active) : Seek(Pos, "SET", flt)
    \/ \E NewSize \in {0, MaxLen}, flt \in Faults(Active) :
          Chsize(NewSize, flt)
    \/ \E fill \in FillBytes, flt \in Faults(Active) :
          Write(Fill(MaxLen, fill), flt)
    \/ \E fill \in FillBytes, flt \in Faults(Active) :
          Read(MaxLen, fill, flt)

NextOrder ==
    \/ OpenOnce
    \/ nops = 0 /\ nfaults = 0 /\ Add(NoFault)
    \/ nops < MaxOps /\ FanOut
    \/ (\E h \in Active : f_handle[h] # -1) /\ Close

SpecOrder == Init /\ [][NextOrder]_vars

\* A session on files that exist beforehand: the files of the primary and of
\* the first secondary hold any content, equal or not; the primary is opened
\* once, secondaries are added at any time, and the operations run without
\* injected faults.
InitSession ==
    /\ \E A \in Datas, B \in Datas :
          files = [h \in Participants |->
                      IF h = 0 THEN [exists |-> TRUE, data |-> A]
                      ELSE IF h = 1 THEN [exists |-> TRUE, data |-> B]
                      ELSE [exists |-> FALSE, data |-> <<>>]]
    /\ f_handle = [h \in Participants |-> -1]
    /\ f_pos = [h \in Participants |-> 0]
    /\ f_app = [h \in Participants |-> FALSE]
    /\ e_flags = [h \in Participants |-> {"open"}]
    /\ NumCopies = 0
    /\ OpenFlags = {}
    /\ buffer = <<>>
    /\ op = [name |-> "init", args |-> <<>>]
    /\ ret = FALSE
    /\ ubuf = <<>>
    /\ calls = <<>>
    /\ roundTrip = NoTrip
    /\ nfaults = 0
    /\ nops = 0
    /\ nopens = 0
    /\ thr = <<>>

SessionOps ==
    \/ Bad
    \/ \E name \in {"fail", "good", "is_open", "is_closed", "eflags"} :
          Query(name)
    \/ Eof(NoFault)
    \/ Length(NoFault)
    \/ Tell(NoFault)
    \/ \E Pos \in (0 - 1)..MaxLen, Dir \in SeekDirs : Seek(Pos, Dir, NoFault)
    \/ \E NewSize \in (0 - 1)..MaxLen : Chsize(NewSize, NoFault)
    \/ \E data \in Datas : Write(data, NoFault)
    \/ \E Size \in 0..MaxLen, fill \in FillBytes : Read(Size, fill, NoFault)

NextSession ==
    \/ /\ nopens < 1
       /\ \E kind \in {"open", "create"}, flags \in CallerFlags :
             OpenOp(kind, flags, NoFault)
    \/ f_handle[0] # -1 /\ nops = 0 /\ NumCopies < 2 /\ Add(NoFault)
    \/ f_handle[0] # -1 /\ nops < MaxOps /\ SessionOps

SpecSession == InitSession /\ [][NextSession]_vars

\* Secondaries added late: the primary is opened once and written, positioned
\* and asked for its position without faults, and secondaries are added at any
\* time in between.
NextLateAdd ==
    \/ OpenOnce
    \/ f_handle[0] # -1 /\ Add(NoFault)
    \/ /\ f_handle[0] # -1
       /\ nops < MaxOps
       /\ \/ \E data \in Datas : Write(data, NoFault)
          \/ \E Pos \in 0..MaxLen : Seek(Pos, "SET", NoFault)
          \/ Tell(NoFault)

SpecLateAdd == Init /\ [][NextLateAdd]_vars

\* Reading back: on files that exist beforehand the coordinator is opened,
\* secondaries are added up front, reads and seeks run without faults, and
\* the coordinator may be closed and opened again.
NextReadBack ==
    \/ /\ nopens < MaxOpens
       /\ f_handle[0] = -1
       /\ \E kind \in {"open", "create"}, flags \in CallerFlags :
             OpenOp(kind, flags, NoFault)
    \/ f_handle[0] # -1 /\ nops = 0 /\ NumCopies < 2 /\ Add(NoFault)
    \/ /\ f_handle[0] # -1
       /\ nops < MaxTripOps
       /\ \/ \E Size \in 0..MaxLen, fill \in FillBytes :
                Read(Size, fill, NoFault)
          \/ \E Pos \in 0..MaxLen : Seek(Pos, "SET", NoFault)
    \/ f_handle[0] # -1 /\ nops > 0 /\ Close

SpecReadBack == InitSession /\ [][NextReadBack]_vars

\* Opening again: open, create and excl are called repeatedly without faults,
\* also while the primary is open, and secondaries are added in between.
NextReopen ==
    \/ /\ nopens <= MaxOpens
       /\ \E kind \in OpenKinds, flags \in CallerFlags :
             OpenOp(kind, flags, NoFault)
    \/ Add(NoFault)

SpecReopen == Init /\ [][NextReopen]_vars

\* ---------------------------------------------------------------- threads
\* Threads that call read at the same time, each on a coordinator of its own.
\* thr[t] holds the coordinator of thread t (w, n), the locals of its read
\* (Size, Ptr, Error, i), its position in MultiFile::read (pc) and the
\* instance of the thread_local `buffer` that belongs to thread t.  A step of
\* a thread is one statement of MultiFile::read.
Threads == 1..2

\* a buffer declared static without thread_local: one instance for all threads
buffer_shared(t) == 1

\* `inline static thread_local`: the instance of `buffer` that thread t names
buffer_of(t) == t

Buf_(t) == thr[buffer_of(t)].buffer

\* a coordinator opened on the existing files A and B with one secondary
Coordinator(A, B) ==
    LET w0 == [files |-> [h \in Participants |->
                             IF h = 0 THEN [exists |-> TRUE, data |-> A]
                             ELSE IF h = 1 THEN [exists |-> TRUE, data |-> B]
                             ELSE [exists |-> FALSE, data |-> <<>>]],
               fh |-> [h \in Participants |-> -1],
               fpos |-> [h \in Participants |-> 0],
               fapp |-> [h \in Participants |-> FALSE],
               ef |-> [h \in Participants |-> {"open"}],
               calls |-> <<>>]
        o == MF_open_(w0, filter_open({}), NoFault)
        a == MF_add(o.w, o.n, o.fl, NoFault)
    IN [w |-> [a.w EXCEPT !.calls = <<>>], n |-> a.n]

\* the content of the files the threads' coordinators are opened on
ThreadFiles == {Fill(MaxLen, b) : b \in Byte}

InRead == {"resize", "primary", "copy", "cmp"}

\* thread t moves to the record rec and leaves B in the buffer it names; a
\* thread that is inside read meanwhile has been overlapped
Step(t, rec, B) ==
    thr' = [u \in Threads |->
               LET r1 == IF u = t THEN rec
                         ELSE IF thr[u].pc \in InRead
                              THEN [thr[u] EXCEPT !.overlapped = TRUE]
                              ELSE thr[u]
               IN IF u = buffer_of(t) THEN [r1 EXCEPT !.buffer = B] ELSE r1]

InitThreads ==
    /\ files = [h \in Participants |-> [exists |-> FALSE, data |-> <<>>]]
    /\ f_handle = [h \in Participants |-> -1]
    /\ f_pos = [h \in Participants |-> 0]
    /\ f_app = [h \in Participants |-> FALSE]
    /\ e_flags = [h \in Participants |-> {"open"}]
    /\ NumCopies = 0
    /\ OpenFlags = {}
    /\ buffer = <<>>
    /\ op = [name |-> "init", args |-> <<>>]
    /\ ret = FALSE
    /\ ubuf = <<>>
    /\ calls = <<>>
    /\ roundTrip = NoTrip
    /\ nfaults = 0
    /\ nops = 0
    /\ nopens = 0
    /\ \E A \in [Threads -> ThreadFiles], B \in [Threads -> ThreadFiles] :
          thr = [t \in Threads |->
                    [pc |-> "idle", w |-> Coordinator(A[t], B[t]).w,
                     n |-> Coordinator(A[t], B[t]).n, Size |-> 0,
                     Ptr |-> <<>>, Error |-> FALSE, i |-> 0,
                     alone |-> [r |-> FALSE, Ptr |-> <<>>],
                     overlapped |-> FALSE, ncalls |-> 0, buffer |-> <<>>]]

\* thread t calls read(Ptr_, Size); alone is what the call gives when no
\* other thread runs
T_Call(t, Size, fill) ==
    /\ thr[t].pc = "idle"
    /\ thr[t].ncalls < MaxOps
    /\ LET a == MF_read(thr[t].w, thr[t].n, Size, Fill(Size, fill),
                        thr[t].buffer, NoFault)
       IN Step(t, [thr[t] EXCEPT !.pc = "resize", !.Size = Size,
                                 !.Ptr = Fill(Size, fill), !.Error = FALSE,
                                 !.i = 0, !.overlapped = FALSE,
                                 !.ncalls = @ + 1,
                                 !.alone = [r |-> a.r, Ptr |-> a.Ptr]],
               Buf_(t))

\* buffer.resize(Size)
T_Resize(t) ==
    /\ thr[t].pc = "resize"
    /\ Step(t, [thr[t] EXCEPT !.pc = "primary"],
            Resize(Buf_(t), thr[t].Size))

\* bool Error = hdl.read(Ptr_, Size) || hdl.fail()
T_Primary(t) ==
    /\ thr[t].pc = "primary"
    /\ LET p == BF_read(thr[t].w, 0, thr[t].Size, NoFault)
       IN Step(t, [thr[t] EXCEPT !.w = [p.w EXCEPT !.calls = <<>>],
                                 !.Ptr = Into(@, p.data),
                                 !.Error = p.r \/ fail_h(p.w, 0),
                                 !.i = 1,
                                 !.pc = IF thr[t].n >= 1 THEN "copy"
                                        ELSE "done"],
               Buf_(t))

\* Error = copies[i].read(Buf_, Size) || copies[i].fail() || Error
T_Copy(t) ==
    /\ thr[t].pc = "copy"
    /\ LET c == BF_read(thr[t].w, thr[t].i, thr[t].Size, NoFault)
       IN Step(t, [thr[t] EXCEPT !.w = [c.w EXCEPT !.calls = <<>>],
                                 !.Error = c.r \/ fail_h(c.w, thr[t].i) \/ @,
                                 !.pc = "cmp"],
               Into(Buf_(t), c.data))

\* Error = memcmp(Ptr_, Buf_, Size) != 0 || Error, and the loop's i++
T_Cmp(t) ==
    /\ thr[t].pc = "cmp"
    /\ Step(t, [thr[t] EXCEPT !.Error = (thr[t].Ptr # Buf_(t)) \/ @,
                              !.i = @ + 1,
                              !.pc = IF thr[t].i + 1 > thr[t].n THEN "done"
                                     ELSE "copy"],
            Buf_(t))

\* return Error
T_Return(t) ==
    /\ thr[t].pc = "done"
    /\ Step(t, [thr[t] EXCEPT !.pc = "idle"], Buf_(t))

NextThreads ==
    /\ \E t \in Threads :
          \/ \E Size \in 1..MaxLen, fill \in FillBytes : T_Call(t, Size, fill)
          \/ T_Resize(t)
          \/ T_Primary(t)
          \/ T_Copy(t)
          \/ T_Cmp(t)
          \/ T_Return(t)
    /\ UNCHANGED <<files, f_handle, f_pos, f_app, e_flags, NumCopies,
                   OpenFlags, buffer, op, ret, ubuf, calls, roundTrip,
                   nfaults, nops, nopens>>

SpecThreads == InitThreads /\ [][NextThreads]_vars


\* ------------------------------------------------------------------ claims

\* C1: on healthy participants and without an injected fault, write(B), then a
\* seek that puts every participant back where its write started, then
\* read(|B|) reports no failure and leaves B in the caller's buffer, for every
\* number of secondaries.
C1_RoundTrip ==
    roundTrip.st = "read" => (ret = FALSE /\ ubuf = roundTrip.B)

C1_Witness ==
    /\ roundTrip.st = "read"
    /\ NumCopies = MaxCopies
    /\ Len(roundTrip.B) = MaxLen
    /\ \A h \in Active : files[h].data = roundTrip.B

\* the bytes of participant h's file that a read of Size bytes covers
Window(h, Size) ==
    SubSeq(files[h].data, f_pos[h] + 1,
           Min(f_pos[h] + Size, Len(files[h].data)))

\* C2: when the bytes a read covers in some active secondary differ from the
\* bytes it covers in the primary, read reports failure, and the caller's
\* buffer holds the bytes the primary delivered (the rest of it untouched),
\* never a secondary's bytes.
C2_MismatchReported ==
    [][(/\ op'.name = "read"
        /\ vars' # vars
        /\ f_handle[0] # -1
        /\ \E i \in 1..NumCopies :
              /\ f_handle[i] # -1
              /\ Window(i, op'.args[1]) # Window(0, op'.args[1]))
       => (/\ ret' = TRUE
           /\ ubuf' = Into(Fill(op'.args[1], op'.args[2]),
                           SubSeq(Window(0, op'.args[1]), 1,
                                  Max(calls'[1].r, 0))))]_vars

\* a read whose only fault is a secondary holding different bytes
C2_Witness ==
    /\ op.name = "read"
    /\ ret = TRUE
    /\ NumCopies >= 2
    /\ \A k \in 1..Len(calls) : calls[k].r = MaxLen
    /\ \A h \in Active : e_flags[h] = {}
    /\ ubuf = files[0].data
    /\ \E i \in 1..NumCopies : files[i].data # files[0].data


\* the k-th underlying call of the last operation failed
CallFailed(k) ==
    CASE calls[k].fn = "read" -> calls[k].r # op.args[1]
      [] calls[k].fn = "write" -> calls[k].r # Len(op.args[1])
      [] calls[k].fn \in {"seek", "tell", "length", "eof"} -> calls[k].r = -1
      [] calls[k].fn \in {"chsize", "commit"} -> calls[k].r # 0
      [] OTHER -> FALSE

\* C3: commit reports failure iff the commit of at least one participant,
\* primary or secondary, failed.
C3_CommitAnyFailure ==
    op.name = "commit" =>
        (ret = TRUE <=> \E k \in 1..Len(calls) :
                           calls[k].fn = "commit_refused" \/ CallFailed(k))

\* C4: a registered secondary is never dropped from the active set while its
\* handle is open: no handle is open but untracked.
C4_NoUntrackedSecondary ==
    \A i \in 1..MaxCopies : f_handle[i] # -1 => i <= NumCopies

\* the values the participants reported to the last operation, in call order
Reported == [k \in 1..Len(calls) |-> calls[k].r]

\* C5: seek, tell and length consult the primary and every active secondary and
\* return the common value when all of them report the same value, and -1 as
\* soon as one of them, at any index, reports a different one.
C5_CommonValueOrSentinel ==
    op.name \in {"seek", "tell", "length"} =>
        /\ Len(calls) = NumCopies + 1
        /\ \A k \in 1..Len(calls) : calls[k].h = k - 1
        /\ IF \A k \in 1..Len(calls) : Reported[k] = Reported[1]
           THEN ret = Reported[1]
           ELSE ret = -1

\* tell with one secondary in the middle at a different position
C5_Witness ==
    /\ op.name = "tell"
    /\ ret = -1
    /\ NumCopies = MaxCopies
    /\ Len(calls) = MaxCopies + 1
    /\ Reported[3] >= 0
    /\ Reported[3] # Reported[1]
    /\ \A k \in 1..Len(calls) : k # 3 => Reported[k] = Reported[1]

\* C6: good() is the conjunction of the participants' good(); with exactly one
\* participant's handle closed and the others healthy, good() returns false and
\* fail() and bad() return true, whichever is called first.
C6_ClosedHandleReported ==
    /\ op.name = "good" => (ret = \A h \in Active : e_flags[h] = {})
    /\ (\E h \in Active :
           /\ f_handle[h] = -1
           /\ \A g \in Active \ {h} : f_handle[g] # -1 /\ e_flags[g] = {})
       => /\ op.name = "good" => ret = FALSE
          /\ op.name = "fail" => ret = TRUE
          /\ op.name = "bad" => ret = TRUE

\* C7: write issues the write of the same bytes to the primary and to every
\* active secondary, whatever the earlier ones returned, and reports failure
\* iff at least one of them wrote less than the full size.
C7_WriteFansOut ==
    op.name = "write" =>
        /\ Len(calls) = NumCopies + 1
        /\ \A k \in 1..Len(calls) :
              /\ calls[k].h = k - 1
              /\ calls[k].fn = "write"
              /\ (calls[k].r = Len(op.args[1]) /\ ~f_app[k - 1]) =>
                    SubSeq(files[k - 1].data,
                           f_pos[k - 1] - Len(op.args[1]) + 1,
                           f_pos[k - 1]) = op.args[1]
        /\ ret = (\E k \in 1..Len(calls) : calls[k].r # Len(op.args[1]))

\* the primary's write failed and every secondary still got the bytes
C7_Witness ==
    /\ op.name = "write"
    /\ ret = TRUE
    /\ NumCopies = MaxCopies
    /\ Len(calls) = MaxCopies + 1
    /\ calls[1].r = -1
    /\ Len(op.args[1]) = MaxLen
    /\ \A h \in 1..MaxCopies : files[h].data = op.args[1]
    /\ files[0].data = <<>>

\* the handle state of the participants that are active before the step
ActiveUnchanged ==
    \A h \in Active :
        /\ f_handle'[h] = f_handle[h]
        /\ f_pos'[h] = f_pos[h]
        /\ f_app'[h] = f_app[h]
        /\ e_flags'[h] = e_flags[h]

\* C8: add fails when five secondaries are registered or when the underlying
\* open fails, and then leaves the count, the stored flags, the files and the
\* state of every active participant as they were; on success the count grows
\* by exactly one, the new secondary is the last one and it is open and clean.
C8_AddAllOrNothing ==
    [][op'.name = "add" =>
          /\ NumCopies >= MaxCopies => ret' = FALSE
          /\ (\E k \in 1..Len(calls') : calls'[k].r # 0) => ret' = FALSE
          /\ OpenFlags' = OpenFlags
          /\ buffer' = buffer
          /\ ActiveUnchanged
          /\ ret' = FALSE => NumCopies' = NumCopies /\ files' = files
          /\ ret' = TRUE =>
                /\ NumCopies' = NumCopies + 1
                /\ f_handle'[NumCopies'] # -1
                /\ e_flags'[NumCopies'] = {}
                /\ \A h \in Participants \ {NumCopies'} :
                      files'[h] = files[h]]_vars

\* the sixth add has been rejected
C8_Witness ==
    /\ op.name = "add"
    /\ ret = FALSE
    /\ NumCopies = MaxCopies
    /\ \A h \in Active : f_handle[h] # -1 /\ e_flags[h] = {}

\* the last operation reported a failure through its return value
ReportedFailure ==
    \/ op.name \in {"read", "write", "chsize", "commit"} /\ ret = TRUE
    \/ op.name \in {"seek", "tell", "length", "eof"} /\ ret = -1

C10_StickyFlags ==
    [][/\ \A h \in Participants :
             \/ e_flags[h] \subseteq e_flags'[h]
             \/ op'.name \in OpenKinds /\ h = 0
             \/ op'.name = "add" /\ h = NumCopies + 1
       /\ MF_fail(World, NumCopies) =>
             \/ MF_fail([World EXCEPT !.ef = e_flags'], NumCopies')
             \/ op'.name \in OpenKinds]_vars

\* a short write was recorded on one participant, and the bit is still there
\* after a later write that succeeded on that participant
C10_Witness ==
    /\ op.name = "write"
    /\ nops = MaxOps
    /\ NumCopies = MaxCopies
    /\ Len(op.args[1]) > 0
    /\ \A k \in 1..Len(calls) : calls[k].r = Len(op.args[1])
    /\ \E h \in Active :
          /\ e_flags[h] = {"write"}
          /\ \A g \in Active \ {h} : e_flags[g] = {}

\* C11: is_closed() is true iff no handle held by the coordinator is open:
\* the primary and every secondary ever added and not closed since.
C11_ClosedIffNoHandleOpen ==
    op.name = "is_closed" =>
        (ret = TRUE <=> \A h \in Participants : f_handle[h] = -1)

\* participant h is bad: its handle is closed or one of its bad bits is set
IsBad(h) ==
    f_handle[h] = -1 \/ e_flags[h] \cap (BadBits \ {"open"}) # {}

\* C12: is_open() is the conjunction of the participants' is_open(); bad() and
\* fail() are the disjunctions of the participants' bad() and fail(), for
\* every number of secondaries.
C12_QueryAggregation ==
    /\ op.name = "is_open" => ret = (\A h \in Active : f_handle[h] # -1)
    /\ op.name = "bad" => ret = (\E h \in Active : IsBad(h))
    /\ op.name = "fail" => ret = (\E h \in Active : e_flags[h] # {})

\* only the primary is bad, five healthy secondaries were asked after it
C12_Witness ==
    /\ op.name = "bad"
    /\ ret = TRUE
    /\ NumCopies = MaxCopies
    /\ f_handle[0] = -1
    /\ \A h \in 1..MaxCopies : f_handle[h] # -1 /\ e_flags[h] = {}

\* what eof() of participant h reports when its call does not fail
AtEof(h) == IF f_pos[h] >= Len(files[h].data) THEN 1 ELSE 0

\* C13: eof() asks the primary and every active secondary; it returns the
\* primary's value, 0 or 1, when every secondary reports the same value, and
\* -1 when a secondary's value differs or a participant reports an error.
C13_EofCommonOrSentinel ==
    op.name = "eof" =>
        /\ Len(calls) = NumCopies + 1
        /\ \A k \in 1..Len(calls) :
              /\ calls[k].h = k - 1
              /\ calls[k].fn = "eof"
              /\ calls[k].r \in {-1, AtEof(k - 1)}
              /\ f_handle[k - 1] = -1 => calls[k].r = -1
        /\ IF /\ calls[1].r \in {0, 1}
              /\ \A k \in 1..Len(calls) : calls[k].r = calls[1].r
           THEN ret = calls[1].r
           ELSE ret = -1

\* no participant failed, and one secondary in the middle is at the end of
\* its file while the primary and the other secondaries are not
C13_Witness ==
    /\ op.name = "eof"
    /\ ret = -1
    /\ NumCopies = MaxCopies
    /\ Len(calls) = MaxCopies + 1
    /\ calls[3].r = 1
    /\ \A k \in 1..Len(calls) : k # 3 => calls[k].r = 0

\* C14: whatever flags the caller passes, open() resolves them to read-write
\* without write-only, create and exclusive, create() to read-write and create
\* without write-only and exclusive, excl() to read-write, create and
\* exclusive; the stored flags are the resolved ones.
C14_FlagPolicy ==
    /\ op.name = "open" =>
          /\ "RDWR" \in OpenFlags
          /\ OpenFlags \cap {"WRONLY", "CREAT", "EXCL"} = {}
          /\ ~files[0].exists => ret = FALSE
    /\ op.name = "create" =>
          /\ {"RDWR", "CREAT"} \subseteq OpenFlags
          /\ OpenFlags \cap {"WRONLY", "EXCL"} = {}
          /\ ret = TRUE
    /\ op.name = "excl" =>
          /\ {"RDWR", "CREAT", "EXCL"} \subseteq OpenFlags
          /\ "WRONLY" \notin OpenFlags

\* C15: a successful open/create/excl leaves the secondary count at 0 and the
\* resolved flags stored; every add until the next one hands exactly the
\* stored flags to the open of the secondary and leaves them stored.
C15_AddUsesStoredFlags ==
    [][/\ (op'.name \in OpenKinds /\ ret' = TRUE) =>
             /\ NumCopies' = 0
             /\ OpenFlags' = Resolve(op'.name, op'.args[1])
             /\ calls' = <<[h |-> 0, fn |-> "open", r |-> 0,
                            fl |-> OpenFlags']>>
       /\ op'.name = "add" =>
             /\ OpenFlags' = OpenFlags
             /\ \A k \in 1..Len(calls') :
                   calls'[k].fn = "open" =>
                      /\ calls'[k].h = NumCopies + 1
                      /\ calls'[k].fl = OpenFlags
             /\ ret' = TRUE =>
                   /\ calls' = <<[h |-> NumCopies + 1, fn |-> "open",
                                  r |-> 0, fl |-> OpenFlags]>>
                   /\ f_app'[NumCopies + 1] = ("APPEND" \in OpenFlags)
       /\ op'.name \notin OpenKinds => OpenFlags' = OpenFlags]_vars

\* the fifth secondary has been opened with the exclusive-create flags stored
\* by the second opening of the primary
C15_Witness ==
    /\ op.name = "add"
    /\ ret = TRUE
    /\ NumCopies = MaxCopies
    /\ nopens = MaxOpens
    /\ OpenFlags = {"RDWR", "CREAT", "EXCL"}
    /\ calls[1].fl = OpenFlags

\* C16: the secondary count stays within 0..5, every call goes to the primary
\* or to one of the five slots, and an operation other than add goes only to
\* slots below the count.
C16_CountInRange ==
    /\ NumCopies \in 0..MaxCopies
    /\ \A k \in 1..Len(calls) :
          /\ calls[k].h \in 0..MaxCopies
          /\ op.name # "add" => calls[k].h <= NumCopies
          /\ op.name = "add" => calls[k].h <= NumCopies + 1

\* a sixth add has been rejected after the primary was opened again
C16_Witness ==
    /\ op.name = "add"
    /\ ret = FALSE
    /\ calls = <<>>
    /\ NumCopies = MaxCopies
    /\ nopens = MaxOpens

\* the offsets at which the files at p1 and p2, of equal length, differ
Differing(p1, p2) ==
    {k \in 1..Len(files[p1].data) : files[p1].data[k] # files[p2].data[k]}

C18_MirrorsCompareEqual ==
    (/\ op.name = "compare"
     /\ nopens > 0
     /\ \A h \in Active : f_handle[h] = -1) => ret = 0

\* the primary and the fifth secondary hold the MaxLen bytes written and
\* compare equal after close()
C18_Witness ==
    /\ op.name = "compare"
    /\ op.args = <<0, MaxCopies>>
    /\ ret = 0
    /\ NumCopies = MaxCopies
    /\ \A h \in Active : f_handle[h] = -1 /\ Len(files[h].data) = MaxLen
    /\ files[0].data[1] # files[0].data[MaxLen]

\* C19: chsize issues the resize to the primary and to every active secondary,
\* whatever the earlier ones returned, and reports failure iff at least one of
\* them failed; the participants whose resize succeeded have the new size.
C19_ChsizeFansOut ==
    op.name = "chsize" =>
        /\ Len(calls) = NumCopies + 1
        /\ \A k \in 1..Len(calls) :
              /\ calls[k].h = k - 1
              /\ calls[k].fn = "chsize"
              /\ calls[k].r = 0 => Len(files[k - 1].data) = op.args[1]
        /\ ret = (\E k \in 1..Len(calls) : calls[k].r # 0)

\* the primary's resize failed and all five secondaries were still resized
C19_Witness ==
    /\ op.name = "chsize"
    /\ ret = TRUE
    /\ NumCopies = MaxCopies
    /\ Len(calls) = MaxCopies + 1
    /\ calls[1].r # 0
    /\ op.args[1] = MaxLen
    /\ Len(files[0].data) = 0
    /\ \A h \in 1..MaxCopies : Len(files[h].data) = MaxLen

\* C20: read issues the read to the primary and to every active secondary,
\* whatever the earlier reads and comparisons gave; every participant whose
\* read delivered size bytes has advanced by size; and the call reports
\* failure when the read of a participant fell short or failed, or when a
\* secondary's bytes differ from the primary's.
C20_ReadFansOut ==
    [][(op'.name = "read" /\ nops' = nops + 1) =>
          LET Size == op'.args[1] IN
          /\ Len(calls') = NumCopies + 1
          /\ \A h \in Active :
                /\ calls'[h + 1].h = h
                /\ calls'[h + 1].fn = "read"
                /\ calls'[h + 1].r = Size => f_pos'[h] = f_pos[h] + Size
          /\ (\E h \in Active : calls'[h + 1].r # Size) => ret' = TRUE
          /\ (/\ \A h \in Active : calls'[h + 1].r = Size
              /\ \E i \in 1..NumCopies : Window(i, Size) # Window(0, Size))
                => ret' = TRUE]_vars

\* the primary's read failed, and all five secondaries still read MaxLen
\* bytes and advanced
C20_Witness ==
    /\ op.name = "read"
    /\ op.args[1] = MaxLen
    /\ ret = TRUE
    /\ NumCopies = MaxCopies
    /\ Len(calls) = MaxCopies + 1
    /\ calls[1].r = -1
    /\ f_pos[0] = 0
    /\ \A h \in 1..MaxCopies : calls[h + 1].r = MaxLen /\ f_pos[h] = MaxLen

\* the operations that are fanned out over the primary and the secondaries
FanOutOps == {"write", "read", "seek", "tell", "length", "chsize", "commit",
              "eof", "close"}

\* C21: within every fan-out operation (write, read, seek, tell, length,
\* chsize, commit, eof, close) the primary is served first and then the
\* secondaries in registration order, up to the last active one: every
\* operation but close visits each of the participants 0..NumCopies once in
\* that order, and close closes exactly the participants that were open, in
\* that order.
C21_PrimaryFirstInOrder ==
    [][op'.name \in FanOutOps =>
          /\ \A j \in 1..Len(calls'), k \in 1..Len(calls') :
                j < k => calls'[j].h <= calls'[k].h
          /\ op'.name # "close" =>
                /\ Len(calls') = NumCopies + 1
                /\ \A k \in 1..Len(calls') : calls'[k].h = k - 1
          /\ op'.name = "close" =>
                /\ \A k \in 1..Len(calls') : calls'[k].h \in Active
                /\ \A h \in Active :
                      f_handle[h] # -1 <=>
                         \E k \in 1..Len(calls') :
                            calls'[k].h = h /\ calls'[k].fn = "close"]_vars

\* close has flushed and closed the primary and then the five secondaries,
\* one after the other
C21_Witness ==
    /\ op.name = "close"
    /\ NumCopies = MaxCopies
    /\ Len(calls) = 2 * (MaxCopies + 1)
    /\ \A h \in Active :
          /\ calls[2 * h + 1] = [h |-> h, fn |-> "os_commit", r |-> 0]
          /\ calls[2 * h + 2] = [h |-> h, fn |-> "close", r |-> 0]

\* what close() may change is left as it is
CloseChangedNothing ==
    UNCHANGED <<files, f_handle, f_pos, f_app, e_flags, NumCopies, OpenFlags,
                buffer, ubuf>>

\* C22: close() closes the primary and then every active secondary, in
\* registration order; when it has returned no active participant is open,
\* is_closed() answers true and is_open() answers false, and a second close()
\* makes no call and changes nothing.
C22_CloseClosesAll ==
    /\ [](op.name = "close" =>
            /\ \A h \in Active : f_handle[h] = -1
            /\ MF_is_closed(World, NumCopies)
            /\ ~MF_is_open(World, NumCopies)
            /\ \A j \in 1..Len(calls), k \in 1..Len(calls) :
                  j < k => calls[j].h <= calls[k].h)
    /\ [][op.name = "close" =>
             /\ op'.name = "is_closed" => ret' = TRUE
             /\ op'.name = "is_open" => ret' = FALSE
             /\ op'.name = "close" => calls' = <<>> /\ CloseChangedNothing]_vars

\* close() called a second time on a coordinator that had the primary and
\* five secondaries open
C22_Witness ==
    /\ op.name = "close"
    /\ calls = <<>>
    /\ NumCopies = MaxCopies
    /\ \A h \in Active : files[h].exists /\ f_handle[h] = -1
    /\ e_flags[0] = {}

\* the operations that only read, position or query
ReadOnlyOps == {"read", "seek", "tell", "length", "eof", "bad", "fail",
                "good", "is_open", "is_closed", "eflags"}

\* byte k of the file of participant h in the file system fs, -1 past its end
ByteAt(fs, h, k) == IF k <= Len(fs[h].data) THEN fs[h].data[k] ELSE -1

\* the operation of this step writes or resizes over byte k of file h
Covers(h, k) ==
    \/ /\ op'.name = "write"
       /\ Len(op'.args[1]) > 0
       /\ LET start == IF f_app[h] THEN Len(files[h].data) ELSE f_pos[h] IN
          /\ k > Min(start, Len(files[h].data))
          /\ k <= start + Len(op'.args[1])
    \/ op'.name = "chsize" /\ k > Min(op'.args[1], Len(files[h].data))

\* C23: no operation repairs a diverged copy: read, seek, tell, length, eof
\* and the state queries leave every file as it is, and a byte in which a
\* secondary differs from the primary still differs after every operation
\* that does not write or resize over it.
C23_NoRepair ==
    [][/\ op'.name \in ReadOnlyOps => files' = files
       /\ \A i \in 1..NumCopies, k \in 1..MaxLen :
             (/\ ByteAt(files, 0, k) # ByteAt(files, i, k)
              /\ ~Covers(0, k)
              /\ ~Covers(i, k))
                => ByteAt(files', 0, k) # ByteAt(files', i, k)]_vars

\* a read has found the first secondary different from the primary, and the
\* two files of MaxLen bytes are still different
C23_Witness ==
    /\ op.name = "read"
    /\ op.args[1] = MaxLen
    /\ ret = TRUE
    /\ NumCopies >= 1
    /\ \A h \in Active : e_flags[h] = {} /\ f_pos[h] = MaxLen
    /\ Len(files[0].data) = MaxLen
    /\ Len(files[1].data) = MaxLen
    /\ files[0].data # files[1].data

\* C24: when two threads call read at the same time, each on a coordinator of
\* its own, each call stages the secondaries' bytes in its own thread's
\* buffer: in every interleaving a read returns the failure flag and the
\* caller data it returns when it runs alone.
C24_ReadsIndependent ==
    \A t \in Threads :
        thr[t].pc = "done" =>
            /\ thr[t].Error = thr[t].alone.r
            /\ thr[t].Ptr = thr[t].alone.Ptr

\* the read of thread 1 on consistent files succeeded while thread 2 was
\* reading other bytes through its own coordinator in between
C24_Witness ==
    /\ thr[1].pc = "done"
    /\ thr[1].overlapped
    /\ thr[1].Size = MaxLen
    /\ thr[1].Error = FALSE
    /\ thr[2].pc = "cmp"
    /\ thr[2].Size = MaxLen
    /\ thr[1].buffer # thr[2].buffer
    /\ thr[1].Ptr = thr[1].buffer

\* the participants 0..n are open and agree in content, length and position
InSync(fs, fh, fp, n) ==
    \A h \in 0..n :
        /\ fh[h] # -1
        /\ fs[h].data = fs[0].data
        /\ fp[h] = fp[0]

\* C25: when the secondaries are added before the first positioning or I/O
\* call, every participant is at position 0 when the last add() returns; and
\* participants that are open with identical content, length and position
\* are so again after every fault-free write, read, seek, chsize, tell and
\* length, and tell() and length() do not return -1 on them.
C25_InSyncStaysInSync ==
    /\ [](nops = 0 => \A h \in Active : f_pos[h] = 0)
    /\ [][(/\ InSync(files, f_handle, f_pos, NumCopies)
           /\ op'.name \in {"write", "read", "seek", "chsize", "tell",
                            "length"})
            => /\ InSync(files', f_handle', f_pos', NumCopies')
               /\ op'.name \in {"tell", "length"} => ret' # -1]_vars

\* after a write or a seek on a primary and a secondary with the same MaxLen
\* bytes, tell() gives their common position MaxLen
C25_Witness ==
    /\ op.name = "tell"
    /\ ret = MaxLen
    /\ nops = 2
    /\ NumCopies >= 1
    /\ InSync(files, f_handle, f_pos, NumCopies)
    /\ Len(files[0].data) = MaxLen

\* the last call was an add() that succeeded while the primary was open at a
\* position p > 0
AddedLate ==
    /\ op.name = "add"
    /\ ret = TRUE
    /\ f_handle[0] # -1
    /\ f_pos[0] > 0

\* C26: add() neither copies the primary's content into the new secondary nor
\* moves it to the primary's offset: the file of the primary is left as it
\* is, the new secondary holds what its own file held and is at position 0;
\* when the primary is at p > 0 the next tell() returns -1, and the next
\* write puts its bytes at offset p in the primary and at offset 0 in the new
\* secondary.
C26_AddDoesNotAlign ==
    [][/\ (op'.name = "add" /\ ret' = TRUE) =>
             /\ NumCopies' = NumCopies + 1
             /\ f_pos'[NumCopies'] = 0
             /\ files'[NumCopies'].data = files[NumCopies'].data
             /\ files'[0] = files[0]
             /\ f_pos'[0] = f_pos[0]
       /\ (AddedLate /\ op'.name = "tell") => ret' = -1
       /\ (AddedLate /\ op'.name = "write") =>
             LET B == op'.args[1] IN
             /\ f_pos'[NumCopies] = Len(B)
             /\ SubSeq(files'[NumCopies].data, 1, Len(B)) = B
             /\ f_pos'[0] = f_pos[0] + Len(B)
             /\ SubSeq(files'[0].data, f_pos[0] + 1, f_pos[0] + Len(B)) = B
             /\ f_pos'[0] # f_pos'[NumCopies]]_vars

\* a secondary was added after the primary had been written: it is empty and
\* at position 0, the primary is at MaxLen, and tell() has returned -1
C26_Witness ==
    /\ op.name = "tell"
    /\ ret = -1
    /\ NumCopies = 1
    /\ f_pos[0] = MaxLen
    /\ f_pos[1] = 0
    /\ Len(files[0].data) = MaxLen
    /\ files[1].data = <<>>
    /\ \A h \in Active : f_handle[h] # -1 /\ e_flags[h] = {}

\* some participant of the coordinator has an error flag set
Flagged == \E h \in Active : e_flags[h] # {}

\* C27: read() reports failure whenever the primary or an active secondary
\* has an error flag set, also when every participant delivers the full size
\* and the bytes match; a read that falls short sets the read flag of the
\* participant, and no read, seek or close takes a flag away, so every later
\* read fails; only opening again clears the flags.
C27_FlaggedReadFails ==
    [][/\ (op'.name = "read" /\ Flagged) => ret' = TRUE
       /\ op'.name = "read" =>
             \A h \in Active :
                calls'[h + 1].r # op'.args[1] => "read" \in e_flags'[h]
       /\ op'.name \in {"read", "seek", "close"} =>
             \A h \in Active : e_flags[h] \subseteq e_flags'[h]
       /\ (op'.name \in OpenKinds /\ ret' = TRUE) => e_flags'[0] = {}]_vars

\* after a read that ran past the end and a seek back to the start, a read
\* in which every participant delivers all bytes, equal on all of them, has
\* reported failure
C27_Witness ==
    /\ op.name = "read"
    /\ nops = 3
    /\ ret = TRUE
    /\ NumCopies >= 1
    /\ op.args[1] >= 1
    /\ \A h \in Active :
          /\ calls[h + 1].r = op.args[1]
          /\ f_pos[h] = op.args[1]
          /\ files[h].data = files[0].data
          /\ e_flags[h] = {"read"}
    /\ ubuf = SubSeq(files[0].data, 1, op.args[1])

\* the step is an add() called right after close()
AddAfterClose == op.name = "close" /\ op'.name = "add"

\* add() made the one call that opens slot NumCopies with the stored flags
OpensNextSlot ==
    /\ Len(calls') = 1
    /\ calls'[1].fn = "open"
    /\ calls'[1].h = NumCopies + 1
    /\ calls'[1].fl = OpenFlags

C29_ReopenLeavesSecondaries ==
    [][/\ (op'.name \in OpenKinds /\ f_handle[0] # -1) =>
             /\ ret' = FALSE
             /\ f_handle'[0] = -1
             /\ e_flags'[0] = {"reopen"}
             /\ NumCopies' = 0
             /\ OpenFlags' = Resolve(op'.name, op'.args[1])
             /\ \A h \in 1..MaxCopies : f_handle'[h] = f_handle[h]
             /\ \A k \in 1..Len(calls') : calls'[k].h = 0
       /\ (/\ op'.name \in OpenKinds
           /\ f_handle[0] = -1
           /\ os_open_err(World, 0, Resolve(op'.name, op'.args[1]),
                          NoFault) = 0) =>
             /\ ret' = TRUE
             /\ f_handle'[0] # -1
             /\ e_flags'[0] = {}
             /\ NumCopies' = 0
             /\ \A h \in 1..MaxCopies : f_handle'[h] = f_handle[h]
       /\ (/\ op'.name = "add"
           /\ NumCopies < MaxCopies
           /\ f_handle[NumCopies + 1] # -1) =>
             /\ ret' = FALSE
             /\ NumCopies' = NumCopies
             /\ f_handle'[NumCopies + 1] = -1
             /\ e_flags'[NumCopies + 1] = {"reopen"}
             /\ \A k \in 1..Len(calls') : calls'[k].fn # "open"]_vars

\* after an open on the open primary and a second, successful open, the first
\* add() has failed on slot 0 and closed it, while the second secondary
\* registered earlier is still open and untracked
C29_Witness ==
    /\ op.name = "add"
    /\ ret = FALSE
    /\ nopens = 3
    /\ NumCopies = 0
    /\ f_handle[0] # -1
    /\ e_flags[0] = {}
    /\ f_handle[1] = -1
    /\ e_flags[1] = {"reopen"}
    /\ f_handle[2] # -1
    /\ Len(calls) >= 1
    /\ calls[Len(calls)] = [h |-> 1, fn |-> "close", r |-> 0]

\* C30: in every reachable state good() is the negation of fail() and both
\* agree with eflags() being zero or not, and the values the calls return
\* agree in the same way; after a bad() that returned true fail() is true;
\* and a default-constructed coordinator has good() false, fail() true,
\* is_open() false and is_closed() true.
C30_GoodIsNotFail ==
    /\ MF_good(World, NumCopies) = ~MF_fail(World, NumCopies)
    /\ MF_good(World, NumCopies) = (MF_eflags(World, NumCopies) = {})
    /\ op.name = "good" => ret = ~MF_fail(World, NumCopies)
    /\ op.name = "fail" => ret = ~MF_good(World, NumCopies)
    /\ op.name = "eflags" => (ret = {}) = MF_good(World, NumCopies)
    /\ (op.name = "bad" /\ ret = TRUE) => MF_fail(World, NumCopies)
    /\ op.name = "init" =>
          /\ ~MF_good(World, NumCopies)
          /\ MF_fail(World, NumCopies)
          /\ ~MF_is_open(World, NumCopies)
          /\ MF_is_closed(World, NumCopies)

\* bad() has returned true on six open participants of which only the last
\* secondary carries an error flag, and fail() is true
C30_Witness ==
    /\ op.name = "bad"
    /\ ret = TRUE
    /\ NumCopies = MaxCopies
    /\ \A h \in Active : f_handle[h] # -1
    /\ \A h \in 0..(MaxCopies - 1) : e_flags[h] = {}
    /\ e_flags[MaxCopies] # {}
    /\ MF_fail(World, NumCopies)
    /\ ~MF_good(World, NumCopies)

=============================================================================
